---- MODULE Spec2Model ----
\* Model of patreader.read (src/patreader/__init__.py): the decoder of Gravis
\* Ultrasound .PAT files.  The input file is a sequence of bytes; read() walks
\* it with one cursor, validates the header and decodes one Audio unit per
\* declared sample.
EXTENDS Integers, Sequences, FiniteSets, TLC

VARIABLES
    file,             \* the bytes of the file opened at line 44
    pos,              \* the file object's cursor
    pc,               \* where read() is: "id", "instruments", "layers",
                      \* "num_samples", "loop", "transcode", "done", "raised"
    error,            \* result.error
    error_msg,        \* result.error_msg, as the parts of the formatted string
    samples,          \* result.samples
    num_instruments,  \* locals of read()
    num_layers,
    num_samples,
    i,                \* iterations of the loop of line 75 completed
    data_length,
    modes,
    info,             \* the other decoded fields of the current record
    data              \* what f.read(data_length) returned at line 111

vars == <<file, pos, pc, error, error_msg, samples, num_instruments,
          num_layers, num_samples, i, data_length, modes, info, data>>

----------------------------------------------------------------------------
\* Bounds of the enumerated inputs.

MaxSamples == 2
MaxDataLen == 4

----------------------------------------------------------------------------
\* Constants of the program.

SIXTEEN_BIT == 1
UNSIGNED == 2
IdLength == 11
InstrumentsOffset == 82
LayersOffset == 151
NumSamplesOffset == 198
HeaderReserved == 40
WaveNameLength == 7
TuningLength == 2
EnvelopeLength == 12
RecordReserved == 36
ShortBias == 32768

\* b'GF1PATCH110' and b'GF1PATCH100'
Magic110 == <<71, 70, 49, 80, 65, 84, 67, 72, 49, 49, 48>>
Magic100 == <<71, 70, 49, 80, 65, 84, 67, 72, 49, 48, 48>>

----------------------------------------------------------------------------
\* The file object: read(n) returns the bytes that are there (fewer than n, or
\* none, at the end of the file) and advances by what it returned; seek moves
\* the cursor anywhere, also past the end.

Min(a, b) == IF a < b THEN a ELSE b

ReadAt(p, n) ==
    IF p >= Len(file) \/ n <= 0 THEN <<>>
    ELSE SubSeq(file, p + 1, Min(p + n, Len(file)))

AfterRead(p, n) == p + Len(ReadAt(p, n))

SeekCur(p, n) == p + n

\* int.from_bytes(b, 'little'): unsigned, 0 for the empty string.
RECURSIVE FromBytesLittle(_)
FromBytesLittle(b) ==
    IF b = <<>> THEN 0 ELSE Head(b) + 256 * FromBytesLittle(Tail(b))

FromBytesSigned(b) ==
    LET u == FromBytesLittle(b) IN
    IF Len(b) = 1 /\ u >= 128 THEN u - 256 ELSE u

FromBytes(b) == FromBytesLittle(b)

\* modes & flag, for a flag that is one bit.
HasFlag(m, flag) == (m \div flag) % 2 = 1

----------------------------------------------------------------------------
\* The header.

IsMagicMut(id) ==
    Len(id) = IdLength /\ SubSeq(id, 1, 9) = SubSeq(Magic110, 1, 9)

IsMagic(id) == ~(id # Magic110 /\ id # Magic100)

\* n += n == 0
ZeroMeansOneMut(n) == n

ZeroMeansOne(n) == n + (IF n = 0 THEN 1 ELSE 0)

ReadId ==
    /\ pc = "id"
    /\ LET id == ReadAt(0, IdLength) IN
       /\ pos' = AfterRead(0, IdLength)
       /\ IF ~IsMagic(id)
          THEN /\ error' = "BAD_HEADER"
               /\ error_msg' = <<"Invalid Gravis patch file.">>
               /\ pc' = "done"
          ELSE /\ pc' = "instruments"
               /\ UNCHANGED <<error, error_msg>>
    /\ UNCHANGED <<file, samples, num_instruments, num_layers, num_samples, i,
                   data_length, modes, info, data>>

ReadInstruments ==
    /\ pc = "instruments"
    /\ LET n == ZeroMeansOne(FromBytes(ReadAt(InstrumentsOffset, 1))) IN
       /\ num_instruments' = n
       /\ pos' = AfterRead(InstrumentsOffset, 1)
       /\ IF n <= 0
          THEN /\ error' = "TOO_MANY_INSTRUMENTS"
               /\ error_msg' = <<"Cannot handle patches with ", n, " instruments.">>
               /\ pc' = "done"
          ELSE /\ pc' = "layers"
               /\ UNCHANGED <<error, error_msg>>
    /\ UNCHANGED <<file, samples, num_layers, num_samples, i,
                   data_length, modes, info, data>>

ReadLayers ==
    /\ pc = "layers"
    /\ LET n == ZeroMeansOne(FromBytes(ReadAt(LayersOffset, 1))) IN
       /\ num_layers' = n
       /\ pos' = AfterRead(LayersOffset, 1)
       /\ IF n <= 0
          THEN /\ error' = "TOO_MANY_LAYERS"
               /\ error_msg' = <<"Cannot handle patches with ", n, " layers.">>
               /\ pc' = "done"
          ELSE /\ pc' = "num_samples"
               /\ UNCHANGED <<error, error_msg>>
    /\ UNCHANGED <<file, samples, num_instruments, num_samples, i,
                   data_length, modes, info, data>>

ReadNumSamples ==
    /\ pc = "num_samples"
    /\ num_samples' = FromBytes(ReadAt(NumSamplesOffset, 1))
    /\ pos' = SeekCur(AfterRead(NumSamplesOffset, 1), HeaderReserved)
    /\ pc' = "loop"
    /\ UNCHANGED <<file, error, error_msg, samples, num_instruments, num_layers,
                   i, data_length, modes, info, data>>

----------------------------------------------------------------------------
\* One record: the fixed part (lines 77-109) and the payload (line 111).

ReadRecord ==
    /\ pc = "loop"
    /\ i < num_samples
    /\ LET p0  == SeekCur(pos, WaveNameLength)
           p1  == AfterRead(p0, 1)       \* fractions
           p2  == AfterRead(p1, 4)       \* data_length
           p3  == AfterRead(p2, 4)       \* loop_start
           p4  == AfterRead(p3, 4)       \* loop_end
           p5  == AfterRead(p4, 2)       \* sample_rate
           p6  == AfterRead(p5, 4)       \* low_freq
           p7  == AfterRead(p6, 4)       \* high_freq
           p8  == AfterRead(p7, 4)       \* root_freq
           p9  == SeekCur(p8, TuningLength)
           p10 == AfterRead(p9, 1)       \* stereo_balance
           p11 == SeekCur(p10, EnvelopeLength)
           p12 == AfterRead(p11, 1)      \* tremolo_sweep
           p13 == AfterRead(p12, 1)      \* tremolo_rate
           p14 == AfterRead(p13, 1)      \* tremolo_depth
           p15 == AfterRead(p14, 1)      \* vibrato_sweep
           p16 == AfterRead(p15, 1)      \* vibrato_rate
           p17 == AfterRead(p16, 1)      \* vibrato_depth
           p18 == AfterRead(p17, 1)      \* modes
           p19 == AfterRead(p18, 2)      \* scale_freq
           p20 == AfterRead(p19, 2)      \* scale_factor
           p21 == SeekCur(p20, RecordReserved)
           dl  == FromBytes(ReadAt(p1, 4))
       IN
       /\ info' = [fractions      |-> FromBytes(ReadAt(p0, 1)),
                   loop_start     |-> FromBytes(ReadAt(p2, 4)),
                   loop_end       |-> FromBytes(ReadAt(p3, 4)),
                   sample_rate    |-> FromBytes(ReadAt(p4, 2)),
                   low_freq       |-> FromBytes(ReadAt(p5, 4)),
                   high_freq      |-> FromBytes(ReadAt(p6, 4)),
                   root_freq      |-> FromBytes(ReadAt(p7, 4)),
                   stereo_balance |-> FromBytes(ReadAt(p9, 1)),
                   tremolo_sweep  |-> FromBytes(ReadAt(p11, 1)),
                   tremolo_rate   |-> FromBytes(ReadAt(p12, 1)),
                   tremolo_depth  |-> FromBytes(ReadAt(p13, 1)),
                   vibrato_sweep  |-> FromBytes(ReadAt(p14, 1)),
                   vibrato_rate   |-> FromBytes(ReadAt(p15, 1)),
                   vibrato_depth  |-> FromBytes(ReadAt(p16, 1)),
                   scale_freq     |-> FromBytes(ReadAt(p18, 2)),
                   scale_factor   |-> FromBytes(ReadAt(p19, 2))]
       /\ data_length' = dl
       /\ modes' = FromBytes(ReadAt(p17, 1))
       /\ data' = ReadAt(p21, dl)
       /\ pos' = AfterRead(p21, dl)
    /\ pc' = "transcode"
    /\ UNCHANGED <<file, error, error_msg, samples, num_instruments, num_layers,
                   num_samples, i>>

----------------------------------------------------------------------------
\* The 16-bit payload (lines 114-131).

\* struct.iter_unpack('<H', d): the little-endian unsigned words of d; it
\* raises struct.error unless len(d) is a multiple of 2.
IterUnpackRaises(d) == Len(d) % 2 # 0

IterUnpackUnsigned(d) == [k \in 1..(Len(d) \div 2) |-> d[2 * k - 1] + 256 * d[2 * k]]

\* struct.iter_unpack('<h', d): the same words, read as two's complement.
IterUnpackSignedMut(d) == IterUnpackUnsigned(d)

IterUnpackSigned(d) ==
    [k \in 1..(Len(d) \div 2) |->
        LET u == d[2 * k - 1] + 256 * d[2 * k] IN IF u >= ShortBias THEN u - 2 * ShortBias ELSE u]

\* struct.pack_into('<h', buf, ii, short) raises struct.error when short is
\* no signed 16-bit value or buf has no two bytes at ii.
PackIntoRaises(buf, ii, short) ==
    \/ short < -ShortBias
    \/ short > ShortBias - 1
    \/ ii + 2 > Len(buf)

PackInto(buf, ii, short) ==
    LET u == IF short < 0 THEN short + 2 * ShortBias ELSE short IN
    [buf EXCEPT ![ii + 1] = u % 256, ![ii + 2] = u \div 256]

\* short = word[0] - 0x8000
RebiasMut(word) == word - (ShortBias - 1)

Rebias(word) == word - ShortBias

\* The loop of lines 121-124 (and 128-130): pack the shorts into buf from
\* offset ii on.  The result is <<raised, buf>>.
RECURSIVE PackAll(_, _, _)
PackAll(buf, ii, shorts) ==
    IF shorts = <<>> THEN <<FALSE, buf>>
    ELSE IF PackIntoRaises(buf, ii, Head(shorts)) THEN <<TRUE, buf>>
    ELSE PackAll(PackInto(buf, ii, Head(shorts)), ii + 2, Tail(shorts))

\* bytearray(n)
ByteArray(n) == [k \in 1..n |-> 0]

\* Lines 116-131: <<raised, buf>>.
Convert(d, n, m) ==
    IF IterUnpackRaises(d) THEN <<TRUE, ByteArray(n)>>
    ELSE IF HasFlag(m, UNSIGNED)
         THEN PackAll(ByteArray(n), 0,
                      [k \in 1..(Len(d) \div 2) |-> Rebias(IterUnpackUnsigned(d)[k])])
         ELSE PackAll(ByteArray(n), 0, IterUnpackSigned(d))

SampleWidthMut(m) == IF HasFlag(m, UNSIGNED) THEN 2 ELSE 1

SampleWidth(m) == IF HasFlag(m, SIXTEEN_BIT) THEN 2 ELSE 1

Audio(d, w) == [pcm_data |-> d, sample_width_in_bytes |-> w]

\* result.samples.append(a)
AppendSampleFirst(s, a) == <<a>> \o s

AppendSampleLost(s, a) == s

AppendSample(s, a) == Append(s, a)

\* Lines 112-154: the unit of the record just read is appended, unless the
\* conversion raised, and then the exception leaves read().
Transcode ==
    /\ pc = "transcode"
    /\ LET w == SampleWidth(modes)
           r == IF HasFlag(modes, SIXTEEN_BIT)
                THEN Convert(data, data_length, modes)
                ELSE <<FALSE, data>>
       IN
       IF r[1]
       THEN /\ pc' = "raised"
            /\ UNCHANGED <<samples, i>>
       ELSE /\ samples' = AppendSample(samples, Audio(r[2], w))
            /\ i' = i + 1
            /\ pc' = "loop"
    /\ UNCHANGED <<file, pos, error, error_msg, num_instruments, num_layers,
                   num_samples, data_length, modes, info, data>>

\* Line 183, after the loop.
Return ==
    /\ pc = "loop"
    /\ i >= num_samples
    /\ pc' = "done"
    /\ UNCHANGED <<file, pos, error, error_msg, samples, num_instruments,
                   num_layers, num_samples, i, data_length, modes, info, data>>

----------------------------------------------------------------------------
\* The input files.  A file is a 239-byte header followed by records, each a
\* 96-byte fixed part (data_length at 8..11, modes at 55) and its payload,
\* possibly cut short.

HeaderLength == NumSamplesOffset + 1 + HeaderReserved

RecordFixedLength ==
    WaveNameLength + 1 + 4 + 4 + 4 + 2 + 4 + 4 + 4 + TuningLength + 1
        + EnvelopeLength + 6 + 1 + 2 + 2 + RecordReserved

DataLengthAt == WaveNameLength + 1

ModesAt == DataLengthAt + 4 + 4 + 4 + 2 + 4 + 4 + 4 + TuningLength + 1 + EnvelopeLength + 6

Bytes == 0..255

MkHeader(magic, ins, lay, ns, fill) ==
    [k \in 1..HeaderLength |->
        IF k <= Len(magic) THEN magic[k]
        ELSE IF k = InstrumentsOffset + 1 THEN ins
        ELSE IF k = LayersOffset + 1 THEN lay
        ELSE IF k = NumSamplesOffset + 1 THEN ns
        ELSE fill]

\* n as four little-endian bytes
ToBytes4(n) == <<n % 256, (n \div 256) % 256, (n \div 65536) % 256, (n \div 16777216) % 256>>

MkRecord(dl, m, payload, fill) ==
    [k \in 1..RecordFixedLength |->
        IF k > DataLengthAt /\ k <= DataLengthAt + 4 THEN ToBytes4(dl)[k - DataLengthAt]
        ELSE IF k = ModesAt + 1 THEN m
        ELSE fill] \o payload

Take(s, n) == SubSeq(s, 1, Min(n, Len(s)))

PatternBytes == <<16, 32, 48, 64, 0, 128, 255, 1, 127>>

Pattern(seed, n) == [k \in 1..n |-> PatternBytes[((seed + k - 1) % Len(PatternBytes)) + 1]]

PayloadBytes == {0, 128, 255}

Payloads == UNION {[1..n -> PayloadBytes] : n \in 0..MaxDataLen}

\* Strings that are not the magic: one character off, or too short.
BadIds ==
    {<<71, 70, 49, 80, 65, 84, 67, 72, 49, 49, 49>>,
     <<71, 70, 49, 80, 65, 84, 67, 72, 49, 48, 49>>,
     <<71, 70, 49, 80, 65, 84, 67, 72, 50, 48, 48>>,
     <<103, 70, 49, 80, 65, 84, 67, 72, 49, 49, 48>>,
     <<0, 0, 0, 0, 0, 0, 0, 0, 0, 0, 0>>}

Magics == {Magic110, Magic100}

CountPairs == (Bytes \X {0, 1}) \cup ({0, 1, 255} \X Bytes)

\* Headers alone: every count byte, whole or cut.
HeaderInputs ==
    {MkHeader(mg, c[1], c[2], 0, 170) : mg \in Magics, c \in CountPairs}
    \cup {Take(MkHeader(mg, c[1], c[2], ns, 0), n) :
            mg \in Magics, c \in {0, 1, 255} \X {0, 1, 255}, ns \in 0..MaxSamples,
            n \in {0, 5, 10, 11, 82, 83, 151, 152, 198, 199, 220, 239}}

\* Files that do not start with the magic, whatever follows.
BadIdInputs ==
    {Take(MkHeader(id, c, c, ns, 0) \o MkRecord(2, m, <<1, 2>>, 0), n) :
        id \in BadIds, c \in {0, 1}, ns \in 0..MaxSamples, m \in {0, 3},
        n \in {0, 5, 10, 11, 200, 400}}

\* One whole record, every modes byte.
ModeInputs ==
    {MkHeader(Magic110, 1, 1, 1, 0) \o MkRecord(n, m, Pattern(m, n), 0) :
        m \in Bytes, n \in {0, 1, 2, MaxDataLen}}

\* One record, every payload over PayloadBytes, whole (n = Len(p)) or cut
\* short in the payload (n > Len(p)).
PayloadInputs ==
    {MkHeader(mg, 0, 1, 1, 0) \o MkRecord(n, m, p, 85) :
        mg \in Magics, m \in {0, 1, 2, 3, 253, 255}, p \in Payloads,
        n \in 0..MaxDataLen + 1}

\* A data_length of more than one byte: 8-bit and whole or a byte short, or
\* cut to its first bytes.
LongInputs ==
    {Take(MkHeader(Magic100, 1, 0, 1, 0) \o MkRecord(256 + n, mc[1], Pattern(n, 256 + n), 0),
          HeaderLength + RecordFixedLength + 256 + n - mc[2]) :
        n \in 0..2,
        mc \in {<<0, 0>>, <<0, 1>>, <<2, 0>>, <<0, 250>>, <<1, 250>>, <<3, 250>>, <<3, 252>>}}

RecordChoices(k) ==
    {MkRecord(n, m, Pattern(k + n, n), 0) : n \in {0, 1, 2, MaxDataLen}, m \in {0, 3}}

RECURSIVE RecordLists(_)
RecordLists(k) ==
    IF k = 0 THEN {<<>>}
    ELSE {rs \o r : rs \in RecordLists(k - 1), r \in RecordChoices(k)}

\* Several records, as many as declared, fewer or more, whole or cut.
MultiInputs ==
    {Take(MkHeader(Magic110, 1, 1, ns, 0) \o rs, HeaderLength + Len(rs) - c) :
        ns \in 0..MaxSamples, rs \in UNION {RecordLists(k) : k \in 0..MaxSamples},
        c \in {0, 1, 2, 60}}

Inputs ==
    HeaderInputs \cup BadIdInputs \cup ModeInputs \cup PayloadInputs
        \cup LongInputs \cup MultiInputs

----------------------------------------------------------------------------

Init ==
    /\ file \in Inputs
    /\ pos = 0
    /\ pc = "id"
    /\ error = "OK"
    /\ error_msg = <<>>
    /\ samples = <<>>
    /\ num_instruments = 0
    /\ num_layers = 0
    /\ num_samples = 0
    /\ i = 0
    /\ data_length = 0
    /\ modes = 0
    /\ info = [fractions |-> 0, loop_start |-> 0, loop_end |-> 0, sample_rate |-> 0,
               low_freq |-> 0, high_freq |-> 0, root_freq |-> 0, stereo_balance |-> 0,
               tremolo_sweep |-> 0, tremolo_rate |-> 0, tremolo_depth |-> 0,
               vibrato_sweep |-> 0, vibrato_rate |-> 0, vibrato_depth |-> 0,
               scale_freq |-> 0, scale_factor |-> 0]
    /\ data = <<>>

Next ==
    \/ ReadId
    \/ ReadInstruments
    \/ ReadLayers
    \/ ReadNumSamples
    \/ ReadRecord
    \/ Transcode
    \/ Return

Spec == Init /\ [][Next]_vars

----------------------------------------------------------------------------
\* What the claims say of a file, stated on its bytes alone.

ValidMagic ==
    /\ Len(file) >= 11
    /\ \/ SubSeq(file, 1, 11) = Magic110
       \/ SubSeq(file, 1, 11) = Magic100

\* The byte at an absolute offset, 0 where the file has none.
ByteAt(off) == IF off < Len(file) THEN file[off + 1] ELSE 0

DeclaredSamples == ByteAt(198)

\* Record k (from 0): its payload starts at 239 + 96*(k+1) + the lengths of
\* the payloads before it; its data_length is at record offset 8, its modes
\* byte at record offset 55.
RECURSIVE PayloadOffset(_)
DeclaredLength(k) ==
    LET r == PayloadOffset(k) - 96 + 8 IN
    ByteAt(r) + 256 * ByteAt(r + 1) + 65536 * ByteAt(r + 2) + 16777216 * ByteAt(r + 3)

PayloadOffset(k) ==
    IF k = 0 THEN 239 + 96
    ELSE PayloadOffset(k - 1) + DeclaredLength(k - 1) + 96

DeclaredModes(k) == ByteAt(PayloadOffset(k) - 96 + 55)

Payload(k) ==
    [j \in 1..DeclaredLength(k) |-> ByteAt(PayloadOffset(k) + j - 1)]

\* The file holds records 0..k-1 whole.
Covers(k) ==
    /\ Len(file) >= 239
    /\ \A j \in 0..k - 1 : Len(file) >= PayloadOffset(j) + DeclaredLength(j)

SixteenBit(m) == m % 2 = 1

Unsigned(m) == (m \div 2) % 2 = 1

OddSixteenBit(k) == SixteenBit(DeclaredModes(k)) /\ DeclaredLength(k) % 2 = 1

\* The fixed part of record k is in the file, its payload is not, or not whole.
TruncatedInPayload(k) ==
    /\ Covers(k)
    /\ Len(file) >= PayloadOffset(k)
    /\ Len(file) < PayloadOffset(k) + DeclaredLength(k)

\* A 16-bit little-endian word of a buffer, and its value as a signed short.
WordAt(buf, k) == buf[2 * k - 1] + 256 * buf[2 * k]

SignedValue(w) == IF w >= 32768 THEN w - 65536 ELSE w

\* read() has just appended the unit of the record it read last: data,
\* data_length and modes are that record's.
JustAppended == pc \in {"loop", "done"} /\ i > 0 /\ Len(samples) = i

Returned == pc = "done"

----------------------------------------------------------------------------
\* C1: a file cut short inside a sample's payload makes read() report an
\* error; it never returns a unit with a short or zero-padded buffer.
\* The code returns OK with such a unit.
C1_TruncationIsError ==
    (Returned /\ ValidMagic
       /\ \E k \in 0..DeclaredSamples - 1 : TruncatedInPayload(k))
    => error # "OK"

\* C2: a file whose first 11 bytes are not one of the two magic strings
\* (a shorter file too) gives BAD_HEADER, 'Invalid Gravis patch file.' and
\* no samples, whatever else it holds.
C2_BadHeader ==
    (pc # "id" /\ ~ValidMagic)
    => /\ Returned
       /\ error = "BAD_HEADER"
       /\ error_msg = <<"Invalid Gravis patch file.">>
       /\ samples = <<>>

C2_Witness ==
    /\ Returned
    /\ error = "BAD_HEADER"
    /\ Len(file) > 300
    /\ SubSeq(file, 1, 9) = SubSeq(Magic110, 1, 9)
    /\ ByteAt(198) = 2

\* C3 as stated: in every returned result the samples are empty exactly
\* when there is an error.
C3_EmptyIffError ==
    Returned => ((samples = <<>>) <=> (error # "OK"))

\* C3 amended: in every returned result the samples are empty exactly when
\* there is an error or the file declares no sample.
C3_EmptyIffErrorOrNoSample ==
    Returned => ((samples = <<>>) <=> (error # "OK" \/ DeclaredSamples = 0))

C3_Witness ==
    /\ Returned
    /\ samples = <<>>
    /\ error = "OK"
    /\ ValidMagic
    /\ Len(file) >= 239

\* C4: a 16-bit unsigned record with a whole payload of even length gives a
\* buffer of the same length whose every word is the payload's word less
\* 32768 as a signed little-endian short; the conversion never overflows.
C4_UnsignedRebias ==
    /\ (JustAppended /\ SixteenBit(modes) /\ Unsigned(modes)
          /\ Len(data) = data_length /\ data_length % 2 = 0)
       => LET out == samples[i].pcm_data IN
          /\ Len(out) = Len(data)
          /\ \A k \in 1..(Len(data) \div 2) :
                SignedValue(WordAt(out, k)) = WordAt(data, k) - 32768
    /\ (pc = "raised" /\ SixteenBit(modes) /\ Unsigned(modes))
       => Len(data) % 2 = 1

C4_Witness ==
    /\ JustAppended
    /\ modes = 3
    /\ data = <<0, 128, 255, 255>>
    /\ data_length = 4
    /\ samples[i].pcm_data = <<0, 0, 255, 127>>

\* C5 as stated: a file with the magic that holds all its declared records
\* gives OK and one unit per declared sample, in file order, unit k built
\* from the payload at 239 + 96*(k+1) + the lengths of the payloads before.
C5_AllRecordsDecoded ==
    (pc \in {"done", "raised"} /\ ValidMagic /\ Covers(DeclaredSamples))
    => /\ Returned
       /\ error = "OK"
       /\ Len(samples) = DeclaredSamples
       /\ \A k \in 0..DeclaredSamples - 1 :
             /\ Len(samples[k + 1].pcm_data) = DeclaredLength(k)
             /\ (~SixteenBit(DeclaredModes(k)) \/ ~Unsigned(DeclaredModes(k)))
                  => samples[k + 1].pcm_data = Payload(k)
             /\ (SixteenBit(DeclaredModes(k)) /\ Unsigned(DeclaredModes(k)))
                  => \A j \in 1..(DeclaredLength(k) \div 2) :
                        SignedValue(WordAt(samples[k + 1].pcm_data, j))
                            = WordAt(Payload(k), j) - 32768

\* C5 amended: the same, for a file none of whose declared records is
\* 16-bit with an odd data_length; each record is read where the payload
\* before it ended.
C5_AllRecordsDecodedEven ==
    (ValidMagic /\ Covers(DeclaredSamples)
       /\ \A k \in 0..DeclaredSamples - 1 : ~OddSixteenBit(k))
    => /\ pc # "raised"
       /\ pc = "transcode"
          => /\ data = Payload(i)
             /\ pos = PayloadOffset(i) + DeclaredLength(i)
       /\ Returned
          => /\ error = "OK"
             /\ Len(samples) = DeclaredSamples
             /\ \A k \in 0..DeclaredSamples - 1 :
                   /\ Len(samples[k + 1].pcm_data) = DeclaredLength(k)
                   /\ (~SixteenBit(DeclaredModes(k)) \/ ~Unsigned(DeclaredModes(k)))
                        => samples[k + 1].pcm_data = Payload(k)
                   /\ (SixteenBit(DeclaredModes(k)) /\ Unsigned(DeclaredModes(k)))
                        => \A j \in 1..(DeclaredLength(k) \div 2) :
                              SignedValue(WordAt(samples[k + 1].pcm_data, j))
                                  = WordAt(Payload(k), j) - 32768

C5_Witness ==
    /\ Returned
    /\ ValidMagic
    /\ DeclaredSamples = 2
    /\ Covers(2)
    /\ DeclaredLength(0) = 2
    /\ DeclaredLength(1) = 1
    /\ Len(samples) = 2
    /\ DeclaredModes(0) = 0
    /\ samples[1].pcm_data = <<64, 0>>
    /\ samples[2].pcm_data = <<64>>

\* C6: a file with the magic whose sample-count byte (offset 198) is zero
\* gives no samples and no error, whatever its instrument and layer bytes.
C6_NoSamples ==
    (ValidMagic /\ Len(file) > 198 /\ ByteAt(198) = 0)
    => /\ pc # "raised"
       /\ pc # "transcode"
       /\ Returned => (samples = <<>> /\ error = "OK")

C6_Witness ==
    /\ Returned
    /\ ValidMagic
    /\ Len(file) > 198
    /\ ByteAt(198) = 0
    /\ ByteAt(82) = 0
    /\ ByteAt(151) = 255
    /\ samples = <<>>
    /\ error = "OK"

\* C7: a 16-bit signed record with a whole payload of even length gives the
\* payload byte for byte; a record that is not 16-bit gives the bytes read,
\* whatever its other mode bits.
C7_PassThrough ==
    /\ (JustAppended /\ SixteenBit(modes) /\ ~Unsigned(modes)
          /\ Len(data) = data_length /\ data_length % 2 = 0)
       => samples[i].pcm_data = data
    /\ (JustAppended /\ ~SixteenBit(modes)) => samples[i].pcm_data = data
    /\ pc = "raised" => (SixteenBit(modes) /\ Len(data) % 2 = 1)

C7_Witness ==
    /\ JustAppended
    /\ modes = 253
    /\ data = <<255, 255, 0, 128>>
    /\ samples[i].pcm_data = <<255, 255, 0, 128>>

\* C8: sample_width_in_bytes is 2 when bit 0 of the modes byte is set and 1
\* when it is clear, whatever the other seven bits.
C8_SampleWidth ==
    /\ JustAppended
       => samples[i].sample_width_in_bytes = (IF modes % 2 = 1 THEN 2 ELSE 1)
    /\ \A k \in 1..Len(samples) : samples[k].sample_width_in_bytes \in {1, 2}

C8_Witness ==
    /\ JustAppended
    /\ modes = 254
    /\ samples[i].sample_width_in_bytes = 1
    /\ Len(samples[i].pcm_data) = 2

\* C9: a 16-bit record with an odd data_length makes read() fail; it never
\* returns a unit for it that was cut to an even length or zero-padded.
\* The code returns OK with a zero-padded unit when the file ends in that
\* payload at an even length.
C9_OddLengthIsError ==
    (Returned /\ ValidMagic
       /\ \E k \in 0..DeclaredSamples - 1 :
             Covers(k) /\ Len(file) >= PayloadOffset(k) /\ OddSixteenBit(k))
    => error # "OK"

\* C10: with the magic, the corrected instrument and layer counts are never
\* zero: a stored 0 becomes 1, 1..255 stay, correcting again changes
\* nothing, and read() never reports TOO_MANY_INSTRUMENTS or TOO_MANY_LAYERS.
C10_CountsCorrected ==
    ValidMagic
    => /\ error \notin {"TOO_MANY_INSTRUMENTS", "TOO_MANY_LAYERS"}
       /\ pc \notin {"id", "instruments"}
          => /\ num_instruments = (IF ByteAt(82) = 0 THEN 1 ELSE ByteAt(82))
             /\ num_instruments # 0
             /\ ZeroMeansOne(num_instruments) = num_instruments
       /\ pc \notin {"id", "instruments", "layers"}
          => /\ num_layers = (IF ByteAt(151) = 0 THEN 1 ELSE ByteAt(151))
             /\ num_layers # 0
             /\ ZeroMeansOne(num_layers) = num_layers

C10_Witness ==
    /\ Returned
    /\ ValidMagic
    /\ Len(file) >= 239
    /\ ByteAt(82) = 0
    /\ ByteAt(151) = 255
    /\ num_instruments = 1
    /\ num_layers = 255
    /\ error = "OK"

====
